---- MODULE Spec2Model ----
(***************************************************************************)
(* Model of simulate_ntm (src/ntm_isadurni.py): the breadth-first          *)
(* simulation of a nondeterministic Turing machine, one level of           *)
(* configurations at a time, up to max_steps levels.                       *)
(*                                                                         *)
(* A Python string is a sequence of one-character strings; a tape (a       *)
(* Python list of strings) is a sequence of cells, each cell a string.     *)
(* Positions are 0-based as in the source; TLA+ indexes from 1, so cell    *)
(* `head` of a tape is tape[head + 1].                                     *)
(***************************************************************************)
EXTENDS Integers, Sequences, FiniteSets

\* ---------------------------------------------------------------- bounds
\* The longest transition table, the longest input string, the largest step
\* bound and the number of calls of simulate_ntm the model explores.
MaxRules == 2
MaxInputLen == 2
MaxStepsBound == 3
MaxCalls == 2

\* ------------------------------------------------------- strings and lists
\* The blank symbol the source writes into a new cell ("_", lines 112, 115).
Blank == <<"_">>

\* "".join(cells): the concatenation of the cells' strings (lines 57, 118, 119).
RECURSIVE Join(_)
Join(cells) ==
    IF cells = <<>> THEN <<>> ELSE Head(cells) \o Join(Tail(cells))

\* list(s): one one-character cell per character of s (lines 46, 75).
List(s) == [i \in 1..Len(s) |-> <<s[i]>>]

\* xs[:n] and xs[n:] for n >= 0: Python cuts a slice at the list's end.
Prefix(xs, n) == SubSeq(xs, 1, IF n < Len(xs) THEN n ELSE Len(xs))
Suffix(xs, n) == IF n >= Len(xs) THEN <<>> ELSE SubSeq(xs, n + 1, Len(xs))

\* ------------------------------------------------------------ the inputs
States == {"q0", "q1", "qacc", "qrej"}

Rule(cs, ic, ns, tw, hm) ==
    [current_state |-> cs, input_char |-> ic, next_state |-> ns,
     tape_write |-> tw, head_move |-> hm]

\* The rows a transition table is drawn from (read_ntm keeps every row as it
\* is: any move string, any write string, several rows for one state and
\* symbol, rows that leave the accept or the reject state).  "X" is a head
\* move outside L, R, S; <<"b", "b">> and <<>> are write fields of two
\* characters and of none.
RuleUniverse ==
    { Rule("q0",   <<"a">>, "q0",   <<"a">>,      "R"),
      Rule("q0",   <<"a">>, "qacc", <<"a">>,      "S"),
      Rule("q0",   <<"a">>, "q1",   <<"b">>,      "L"),
      Rule("q0",   <<"a">>, "qrej", <<"a">>,      "S"),
      Rule("q0",   <<"a">>, "q1",   <<"a">>,      "X"),
      Rule("q0",   <<"_">>, "qacc", <<"_">>,      "R"),
      Rule("q1",   <<"_">>, "q0",   <<"b", "b">>, "S"),
      Rule("q0",   <<"a">>, "q0",   <<>>,         "S"),
      Rule("qacc", <<"a">>, "q0",   <<"a">>,      "S"),
      Rule("qrej", <<"a">>, "q0",   <<"a">>,      "S") }

RECURSIVE SeqsUpTo(_, _)
SeqsUpTo(S, n) ==
    IF n = 0 THEN {<<>>}
    ELSE LET shorter == SeqsUpTo(S, n - 1)
         IN  shorter \cup {Append(s, x) : s \in shorter, x \in S}

\* A table of four rows in which a row with the move "X" is tried on a short
\* tape right after a row has moved the head of a longer tape to the right:
\* the value new_head keeps (lines 103-108) is then past the end of the
\* tape it is used on.
StaleHeadTable ==
    << Rule("q0", <<"a">>, "q0",   <<"a">>, "R"),
       Rule("q0", <<"_">>, "qacc", <<"_">>, "R"),
       Rule("q0", <<"a">>, "q1",   <<"a">>, "S"),
       Rule("q1", <<"a">>, "q1",   <<"a">>, "X") >>

\* The tables: every sequence of at most MaxRules rows of RuleUniverse, and
\* StaleHeadTable.
Tables == SeqsUpTo(RuleUniverse, MaxRules) \cup {StaleHeadTable}
\* The input strings: "b" is a symbol no row of RuleUniverse reads.
Inputs == SeqsUpTo({"a", "b"}, MaxInputLen)

\* ------------------------------------------------------------- the state
VARIABLES
    automata,           \* the parsed machine (argument; read_ntm's dictionary)
    input_string,       \* argument
    max_steps,          \* argument
    tree,               \* the levels so far; a level is a sequence of configurations
    total_transitions,
    accept_count,
    reject_count,
    depth,
    next_level,         \* the level the for loop is building
    idx,                \* configurations of the current level already processed
    new_head,           \* <<>> while the local is unbound, else <<its value>>
    pc,                 \* "entry", "while", "for", "done"
    outcome,            \* what the call printed last, or that it raised
    calls,              \* calls of simulate_ntm made with these arguments
    earlier             \* the result of the call before this one, <<>> if none

args == <<automata, input_string, max_steps>>
locals == <<tree, total_transitions, accept_count, reject_count, depth,
            next_level, idx, new_head>>
vars == <<args, locals, pc, outcome, calls, earlier>>

accept_state == automata.accept_state
reject_state == automata.reject_state
transitions == automata.transitions

\* tree[-1] (line 71).
current_level == tree[Len(tree)]

\* A configuration is [left_of_head, state, right_of_head] (lines 57, 74, 122).
Config(left, state, right) == <<left, state, right>>
left_of_head(config) == config[1]
state_of(config) == config[2]
right_of_head(config) == config[3]

\* Lines 75-76: the tape and the head position of a configuration.
tape(config) == List(left_of_head(config) \o right_of_head(config))
head(config) == Len(left_of_head(config))

\* ------------------------------------------------- one transition (89-122)
\* Line 91 without the comparison of the symbol read.
MatchesAnySymbol(transition, config) ==
    transition.current_state = state_of(config)

\* Line 91.  The test is
\*     current_state == state and (input_char == tape[head] if head < len(tape) else "_")
\* and the conditional expression yields the non-empty string "_", which is
\* true, when the head is at the end of the tape.
Matches(transition, config) ==
    /\ transition.current_state = state_of(config)
    /\ IF head(config) < Len(tape(config))
       THEN transition.input_char = tape(config)[head(config) + 1]
       ELSE TRUE

\* Lines 96-100 with the write appended wherever the head is.
WrittenAppends(transition, config) ==
    Append(tape(config), transition.tape_write)

\* Lines 96-100: the copy of the tape with tape_write at the head.
Written(transition, config) ==
    IF head(config) < Len(tape(config))
    THEN [tape(config) EXCEPT ![head(config) + 1] = transition.tape_write]
    ELSE Append(tape(config), transition.tape_write)

\* Lines 103-108: new_head after the move; no branch assigns it for a move
\* other than R, L, S, so it keeps what it held (nh), bound or not.
Moved(transition, config, nh) ==
    CASE transition.head_move = "R" -> <<head(config) + 1>>
      [] transition.head_move = "L" -> <<head(config) - 1>>
      [] transition.head_move = "S" -> <<head(config)>>
      [] OTHER -> nh

\* Lines 111-113 without the insert of line 112: the head is put back on
\* cell 0 and no blank is put in front.
LeftBoundedClamps(new_tape, h) ==
    IF h < 0 THEN [new_tape |-> new_tape, new_head |-> 0]
    ELSE [new_tape |-> new_tape, new_head |-> h]

\* Lines 111-113: a blank is put in front when the head left the tape.
LeftBounded(new_tape, h) ==
    IF h < 0 THEN [new_tape |-> <<Blank>> \o new_tape, new_head |-> 0]
    ELSE [new_tape |-> new_tape, new_head |-> h]

\* Lines 114-115: one blank is appended when the head is at or past the end.
RightBounded(b) ==
    IF b.new_head >= Len(b.new_tape)
    THEN [b EXCEPT !.new_tape = Append(b.new_tape, Blank)]
    ELSE b

\* Lines 118-122: the tape split at the head, with the rule's next state.
Split(transition, b) ==
    Config(Join(Prefix(b.new_tape, b.new_head)),
           transition.next_state,
           Join(Suffix(b.new_tape, b.new_head)))

\* Lines 91-122 with line 93 moved out of the if: every transition tried is
\* counted.
ApplyTransitionCountsAll(transition, config, acc) ==
    IF acc.raised THEN acc
    ELSE LET counted == [acc EXCEPT !.total_transitions = @ + 1]
             moved == Moved(transition, config, acc.new_head)
         IN  IF ~Matches(transition, config) THEN counted
             ELSE IF moved = <<>> THEN [counted EXCEPT !.raised = TRUE]
             ELSE LET b == RightBounded(
                              LeftBounded(Written(transition, config), moved[1]))
                  IN  [counted EXCEPT
                         !.new_head = <<b.new_head>>,
                         !.next_level = Append(@, Split(transition, b))]

\* The body of the loop over the transitions (lines 91-122) for one
\* transition.  acc holds next_level, total_transitions and new_head, and
\* raised once reading the unbound new_head at line 111 has raised
\* UnboundLocalError, which ends the call.
ApplyTransition(transition, config, acc) ==
    IF acc.raised \/ ~Matches(transition, config) THEN acc
    ELSE LET counted == [acc EXCEPT !.total_transitions = @ + 1]
             moved == Moved(transition, config, acc.new_head)
         IN  IF moved = <<>> THEN [counted EXCEPT !.raised = TRUE]
             ELSE LET b == RightBounded(
                              LeftBounded(Written(transition, config), moved[1]))
                  IN  [counted EXCEPT
                         !.new_head = <<b.new_head>>,
                         !.next_level = Append(@, Split(transition, b))]

\* Line 90 over reversed(transitions).
RECURSIVE ExploreFromReversed(_, _, _)
ExploreFromReversed(k, config, acc) ==
    IF k > Len(transitions) THEN acc
    ELSE ExploreFromReversed(
             k + 1, config,
             ApplyTransition(transitions[Len(transitions) + 1 - k], config, acc))

\* Line 90: the transitions in table order, from the k-th on.
RECURSIVE ExploreFrom(_, _, _)
ExploreFrom(k, config, acc) ==
    IF k > Len(transitions) THEN acc
    ELSE ExploreFrom(k + 1, config, ApplyTransition(transitions[k], config, acc))

Explore(config) ==
    ExploreFrom(1, config,
                [next_level |-> next_level, total_transitions |-> total_transitions,
                 new_head |-> new_head, raised |-> FALSE])

\* ------------------------------------------------------------ the actions
\* The state before a call: the arguments are chosen, the locals hold nothing.
Init ==
    /\ automata \in [start_state : {"q0", "qacc", "qrej"},
                     accept_state : {"qacc"}, reject_state : {"qrej"},
                     transitions : Tables]
    /\ input_string \in Inputs
    /\ max_steps \in 0..MaxStepsBound
    /\ tree = <<>>
    /\ total_transitions = 0
    /\ accept_count = 0
    /\ reject_count = 0
    /\ depth = 0
    /\ next_level = <<>>
    /\ idx = 0
    /\ new_head = <<>>
    /\ pc = "entry"
    /\ outcome = "none"
    /\ calls = 0
    /\ earlier = <<>>

\* Lines 57-58: level 0 holds the initial configuration alone.
initial_config == <<Config(<<>>, automata.start_state, Join(List(input_string)))>>

\* Lines 46-67 with total_transitions a module-level counter that line 60
\* does not reset.
EntryKeepsTotal ==
    /\ pc = "entry"
    /\ tree' = <<initial_config>>
    /\ accept_count' = 0
    /\ reject_count' = 0
    /\ depth' = 0
    /\ next_level' = <<>>
    /\ idx' = 0
    /\ new_head' = <<>>
    /\ pc' = "while"
    /\ calls' = calls + 1
    /\ UNCHANGED <<args, total_transitions, outcome, earlier>>

\* Lines 46-67: the call binds its locals; new_head is not among them.
Entry ==
    /\ pc = "entry"
    /\ tree' = <<initial_config>>
    /\ total_transitions' = 0
    /\ accept_count' = 0
    /\ reject_count' = 0
    /\ depth' = 0
    /\ next_level' = <<>>
    /\ idx' = 0
    /\ new_head' = <<>>
    /\ pc' = "while"
    /\ calls' = calls + 1
    /\ UNCHANGED <<args, outcome, earlier>>

\* Line 70, with the test written off by one.
LoopTestInclusive == depth <= max_steps

\* Line 70: the test of the while loop.
LoopTest == depth < max_steps

\* Lines 70-72: the loop test holds; the for loop starts on the last level.
WhileEnter ==
    /\ pc = "while"
    /\ LoopTest
    /\ next_level' = <<>>
    /\ idx' = 0
    /\ pc' = "for"
    /\ UNCHANGED <<args, tree, total_transitions, accept_count, reject_count,
                   depth, new_head, outcome, calls, earlier>>

\* Lines 137-140 as the comment on line 137 has them: "-> reject".
WhileExitRejects ==
    /\ pc = "while"
    /\ ~LoopTest
    /\ outcome' = "rejected"
    /\ pc' = "done"
    /\ UNCHANGED <<args, locals, calls, earlier>>

\* Lines 70, 137-140: the loop test fails; the call reports the step bound.
WhileExit ==
    /\ pc = "while"
    /\ ~LoopTest
    /\ outcome' = "stopped"
    /\ pc' = "done"
    /\ UNCHANGED <<args, locals, calls, earlier>>

\* The configuration the for loop is at (line 74).
current == current_level[idx + 1]

\* Lines 78-81 without the continue of line 81: the accept configuration is
\* counted and goes on to the next level.
ForAcceptPropagates ==
    /\ pc = "for"
    /\ idx < Len(current_level)
    /\ state_of(current) = accept_state
    /\ accept_count' = accept_count + 1
    /\ next_level' = Append(next_level, current)
    /\ idx' = idx + 1
    /\ UNCHANGED <<args, tree, total_transitions, reject_count, depth,
                   new_head, pc, outcome, calls, earlier>>

\* Lines 78-81 with a break for the continue of line 81: the accept
\* configuration is counted and the rest of the level is left out.
ForAcceptBreaks ==
    /\ pc = "for"
    /\ idx < Len(current_level)
    /\ state_of(current) = accept_state
    /\ accept_count' = accept_count + 1
    /\ idx' = Len(current_level)
    /\ UNCHANGED <<args, tree, total_transitions, reject_count, depth,
                   next_level, new_head, pc, outcome, calls, earlier>>

\* Lines 78-81: an accept configuration is counted and dropped.
ForAccept ==
    /\ pc = "for"
    /\ idx < Len(current_level)
    /\ state_of(current) = accept_state
    /\ accept_count' = accept_count + 1
    /\ idx' = idx + 1
    /\ UNCHANGED <<args, tree, total_transitions, reject_count, depth,
                   next_level, new_head, pc, outcome, calls, earlier>>

\* Lines 83-87 without line 86: the reject configuration is counted and
\* dropped.
ForRejectPrunes ==
    /\ pc = "for"
    /\ idx < Len(current_level)
    /\ state_of(current) # accept_state
    /\ state_of(current) = reject_state
    /\ reject_count' = reject_count + 1
    /\ idx' = idx + 1
    /\ UNCHANGED <<args, tree, total_transitions, accept_count, depth,
                   next_level, new_head, pc, outcome, calls, earlier>>

\* Lines 83-87: a reject configuration is counted and copied to the next level.
ForReject ==
    /\ pc = "for"
    /\ idx < Len(current_level)
    /\ state_of(current) # accept_state
    /\ state_of(current) = reject_state
    /\ reject_count' = reject_count + 1
    /\ next_level' = Append(next_level,
                            Config(left_of_head(current), state_of(current),
                                   right_of_head(current)))
    /\ idx' = idx + 1
    /\ UNCHANGED <<args, tree, total_transitions, accept_count, depth,
                   new_head, pc, outcome, calls, earlier>>

\* Lines 89-122: every transition is tried on the configuration.
ForExplore ==
    /\ pc = "for"
    /\ idx < Len(current_level)
    /\ state_of(current) # accept_state
    /\ state_of(current) # reject_state
    /\ ~Explore(current).raised
    /\ next_level' = Explore(current).next_level
    /\ total_transitions' = Explore(current).total_transitions
    /\ new_head' = Explore(current).new_head
    /\ idx' = idx + 1
    /\ UNCHANGED <<args, tree, accept_count, reject_count, depth, pc, outcome,
                   calls, earlier>>

\* Lines 89-111: the same, when line 111 reads new_head before any move has
\* bound it: UnboundLocalError leaves simulate_ntm, nothing is printed.
ForExploreRaise ==
    /\ pc = "for"
    /\ idx < Len(current_level)
    /\ state_of(current) # accept_state
    /\ state_of(current) # reject_state
    /\ Explore(current).raised
    /\ next_level' = Explore(current).next_level
    /\ total_transitions' = Explore(current).total_transitions
    /\ outcome' = "raised"
    /\ pc' = "done"
    /\ UNCHANGED <<args, tree, accept_count, reject_count, depth, idx, new_head,
                   calls, earlier>>

\* Lines 124-135 with the empty level counted before the test of line 124.
LevelEmptyCountsLevel ==
    /\ pc = "for"
    /\ idx = Len(current_level)
    /\ next_level = <<>>
    /\ depth' = depth + 1
    /\ outcome' = IF accept_count # 0 THEN "accepted" ELSE "rejected"
    /\ pc' = "done"
    /\ UNCHANGED <<args, tree, total_transitions, accept_count, reject_count,
                   next_level, idx, new_head, calls, earlier>>

\* Lines 124-131 with the test of line 124 passing over the reject
\* configurations: a next level that holds nothing else ends the run.
LevelEmptyIgnoringRejects ==
    /\ pc = "for"
    /\ idx = Len(current_level)
    /\ \A i \in 1..Len(next_level) : state_of(next_level[i]) = reject_state
    /\ outcome' = IF accept_count # 0 THEN "accepted" ELSE "rejected"
    /\ pc' = "done"
    /\ UNCHANGED <<args, locals, calls, earlier>>

\* Lines 124-131: the level is done and the next one is empty; the verdict.
LevelEmpty ==
    /\ pc = "for"
    /\ idx = Len(current_level)
    /\ next_level = <<>>
    /\ outcome' = IF accept_count # 0 THEN "accepted" ELSE "rejected"
    /\ pc' = "done"
    /\ UNCHANGED <<args, locals, calls, earlier>>

\* Lines 133-135 without line 135: the next level joins the tree and the
\* depth stays as it is.
LevelAppendKeepsDepth ==
    /\ pc = "for"
    /\ idx = Len(current_level)
    /\ next_level # <<>>
    /\ tree' = Append(tree, next_level)
    /\ pc' = "while"
    /\ UNCHANGED <<args, total_transitions, accept_count, reject_count, depth,
                   next_level, idx, new_head, outcome, calls, earlier>>

\* Lines 133-135: the next level joins the tree.
LevelAppend ==
    /\ pc = "for"
    /\ idx = Len(current_level)
    /\ next_level # <<>>
    /\ tree' = Append(tree, next_level)
    /\ depth' = depth + 1
    /\ pc' = "while"
    /\ UNCHANGED <<args, total_transitions, accept_count, reject_count,
                   next_level, idx, new_head, outcome, calls, earlier>>

\* What a finished call has reported: the verdict, the depth (max_steps in
\* the step-bound message, line 139), the total and the printed tree.
Result ==
    [outcome |-> outcome,
     depth |-> IF outcome = "stopped" THEN max_steps ELSE depth,
     total_transitions |-> total_transitions,
     tree |-> tree]

\* simulate_ntm is called again with the same arguments.
CallAgain ==
    /\ pc = "done"
    /\ calls < MaxCalls
    /\ earlier' = <<Result>>
    /\ outcome' = "none"
    /\ pc' = "entry"
    /\ UNCHANGED <<args, locals, calls>>

Next ==
    \/ Entry
    \/ WhileEnter
    \/ WhileExit
    \/ ForAccept
    \/ ForReject
    \/ ForExplore
    \/ ForExploreRaise
    \/ LevelEmpty
    \/ LevelAppend

Spec == Init /\ [][Next]_vars

NextTwice == Next \/ CallAgain

SpecTwice == Init /\ [][NextTwice]_vars

\* simulate_ntm runs on one thread and nothing outside it holds it up: a
\* call that has a next statement to execute executes it.
FairSpec == Init /\ [][Next]_vars /\ WF_vars(Next)

\* ------------------------------------------------------------ the claims
Verdicts == {"accepted", "rejected"}

\* The call is over: it has printed its report, or has raised.
Finished == pc = "done"

\* Level d of the trace (levels count from 0).
Level(d) == tree[d + 1]

HasAccept(level) ==
    \E i \in 1..Len(level) : state_of(level[i]) = accept_state

AcceptLevels == {d \in 0..(Len(tree) - 1) : HasAccept(Level(d))}

\* The first level in which an accept configuration appeared.
FirstAcceptLevel == CHOOSE d \in AcceptLevels : \A e \in AcceptLevels : d <= e

\* The rule's write symbol is one character.
OneCharacterWrite(rule) == Len(rule.tape_write) = 1

\* The rule's move is one of L, R, S and its write symbol is one character.
WellFormed(rule) ==
    rule.head_move \in {"L", "R", "S"} /\ OneCharacterWrite(rule)

WellFormedTable == \A k \in 1..Len(transitions) : WellFormed(transitions[k])

\* C1 (acceptance monotonicity), as the claim states it, for the calls of a
\* well-formed machine on a non-empty input that end with a verdict: when
\* some level d of the trace holds a configuration in the accept state, the
\* verdict is "accepted" and the depth reported with it is the first such
\* d, not a later level.
C1_AcceptedAtFirstAcceptLevel ==
    (/\ Finished /\ outcome \in Verdicts
     /\ WellFormedTable /\ input_string # <<>>
     /\ AcceptLevels # {})
        => (outcome = "accepted" /\ depth = FirstAcceptLevel)

\* C2 (depth bound): the depth counter is at most max_steps, the depth of
\* a report is at most max_steps, and the trace holds at most max_steps + 1
\* levels.
C2_DepthBound ==
    /\ depth <= max_steps
    /\ Len(tree) <= max_steps + 1
    /\ (Finished /\ outcome # "raised") => Result.depth <= max_steps

\* C2's case: the counter has reached a bound of two or more.
C2_Witness ==
    pc = "while" /\ max_steps >= 2 /\ depth = max_steps /\ Len(tree) = max_steps + 1

start_state == automata.start_state
Halting(q) == q = accept_state \/ q = reject_state

\* Rule k is applied to a configuration in state q whose head is on the
\* cells `under` (one cell, or none when the head is at the end of the
\* tape): the test of line 91, stated on the rule.
Applies(k, q, under) ==
    /\ transitions[k].current_state = q
    /\ under # <<>> => transitions[k].input_char = <<under[1]>>

\* No rule is applied to the initial configuration.
NoRuleAtStart ==
    \A k \in 1..Len(transitions) :
        ~Applies(k, start_state, Prefix(input_string, 1))

RejectedAtDepth0 ==
    /\ outcome = "rejected" /\ depth = 0
    /\ total_transitions = 0
    /\ tree = <<initial_config>>

\* C4 (no-transition rejection), as the claim states it, for a non-empty
\* input: whenever no rule matches the initial configuration, the call
\* reports "rejected at depth 0" with no transition counted and level 0
\* alone in the trace.
C4_NoTransitionRejects ==
    (Finished /\ input_string # <<>> /\ NoRuleAtStart) => RejectedAtDepth0

\* C4 as amended: for a step bound of at least one and a start state that is
\* neither the accept nor the reject state, a call in which no rule is
\* applied to the initial configuration (on the empty input line 91 applies
\* every rule of the start state) reports "rejected at depth 0" with no
\* transition counted and level 0 alone in the trace.
C4_NoTransitionRejectsAmended ==
    (Finished /\ NoRuleAtStart /\ max_steps >= 1 /\ ~Halting(start_state))
        => RejectedAtDepth0

\* C4's case: a table with rules, none of which reads the first symbol of
\* a non-empty input, has been run to its verdict.
C4_Witness ==
    /\ Finished /\ NoRuleAtStart /\ max_steps >= 1 /\ ~Halting(start_state)
    /\ input_string # <<>>
    /\ \E k \in 1..Len(transitions) : transitions[k].current_state = start_state
    /\ RejectedAtDepth0

\* The trace is a single path that ends in the accept state: every level
\* holds one configuration, and the last one, and no earlier one, is in the
\* accept state.  Its length in transitions is the number of the last level.
SinglePathToAccept ==
    /\ tree # <<>>
    /\ \A d \in 0..(Len(tree) - 1) :
           /\ Len(Level(d)) = 1
           /\ (state_of(Level(d)[1]) = accept_state) <=> (d = Len(tree) - 1)

PathLength == Len(tree) - 1

AcceptedIn(d) ==
    outcome = "accepted" /\ depth = d /\ total_transitions = d

\* C5 (accepting path depth), as the claim states it, for a path of at
\* least one transition on a non-empty input: a computation that is a
\* single path entering the accept state after d transitions is reported as
\* accepted in d transitions, with d transitions in total.
C5_AcceptingPathDepth ==
    (Finished /\ SinglePathToAccept /\ PathLength >= 1 /\ input_string # <<>>)
        => AcceptedIn(PathLength)

\* C5 as amended: the same, when the step bound is larger than d.
C5_AcceptingPathDepthAmended ==
    (Finished /\ SinglePathToAccept /\ max_steps > PathLength)
        => AcceptedIn(PathLength)

\* C5's case: a path of two transitions, run from a table of two rules.
C5_Witness ==
    /\ Finished /\ SinglePathToAccept /\ max_steps > PathLength
    /\ PathLength = 2 /\ Len(transitions) = 2
    /\ AcceptedIn(2)

\* The rules applied to a configuration in state q with the cells `under`
\* under its head, in table order.
RECURSIVE AppliedFrom(_, _, _)
AppliedFrom(k, q, under) ==
    IF k > Len(transitions) THEN <<>>
    ELSE (IF Applies(k, q, under) THEN <<k>> ELSE <<>>)
             \o AppliedFrom(k + 1, q, under)

\* The cells under the head of a configuration: its first cell to the
\* right, if any.
Under(c) == Prefix(right_of_head(c), 1)

AppliedTo(c) == AppliedFrom(1, state_of(c), Under(c))

\* The for loop has gone through the expansion of a configuration that is
\* in neither the accept nor the reject state.
Expanded ==
    /\ pc = "for" /\ pc' = "for" /\ idx' = idx + 1
    /\ ~Halting(state_of(current))

\* C6 (branching count): an expansion appends to the next level one
\* configuration per rule applied, in table order (the k-th new
\* configuration is in the next state of the k-th rule applied), and
\* counts one transition per such rule; and two rules from the start state
\* on "a" that lead to two states, neither accept nor reject, make of an
\* input starting with "a" a level 1 of two configurations with two
\* transitions counted when level 0 has been expanded.
C6_BranchingCount ==
    /\ [][Expanded =>
            LET applied == AppliedTo(current)
                n == Len(applied)
            IN  /\ Len(next_level') = Len(next_level) + n
                /\ SubSeq(next_level', 1, Len(next_level)) = next_level
                /\ \A j \in 1..n :
                       state_of(next_level'[Len(next_level) + j])
                           = transitions[applied[j]].next_state
                /\ total_transitions' = total_transitions + n]_vars
    /\ [](  (/\ pc \in {"while", "for", "done"} /\ Len(tree) >= 2
             /\ Len(transitions) = 2
             /\ input_string # <<>> /\ input_string[1] = "a"
             /\ \A k \in 1..2 :
                    /\ transitions[k].current_state = start_state
                    /\ transitions[k].input_char = <<"a">>
                    /\ ~Halting(transitions[k].next_state)
                    /\ transitions[k].head_move \in {"L", "R", "S"}
             /\ transitions[1].next_state # transitions[2].next_state
             /\ ~Halting(start_state))
          => (Len(Level(1)) = 2 /\ (Len(tree) = 2 /\ pc = "while"
                                       => total_transitions = 2)))

\* C6's case: level 0 has been expanded by two rules into two states.
C6_Witness ==
    /\ pc = "while" /\ Len(tree) = 2 /\ Len(Level(1)) = 2
    /\ total_transitions = 2
    /\ state_of(Level(1)[1]) = "q1" /\ state_of(Level(1)[2]) = "q0"

\* C7 (termination verdict): a verdict is reported only when the expansion
\* of the last level D of the trace has left the next level empty; it is
\* "accepted" when some level 0..D holds an accept configuration and
\* "rejected" otherwise, its depth is D, and the trace ends with level D.
C7_TerminationVerdict ==
    outcome \in Verdicts =>
        /\ Finished
        /\ idx = Len(current_level) /\ next_level = <<>>
        /\ depth = Len(tree) - 1
        /\ (outcome = "accepted") <=> (AcceptLevels # {})

\* C7's case: a run that died out at depth 2 with an accept configuration
\* in level 1 already.
C7_Witness ==
    outcome = "accepted" /\ depth = 2 /\ HasAccept(Level(1))

\* C7's other case: a run that died out at depth 1 without any accept.
C7_WitnessRejected ==
    outcome = "rejected" /\ depth = 1 /\ total_transitions = 2

\* The tape of a configuration as one string: its left segment followed by
\* its right segment.
TapeOf(c) == left_of_head(c) \o right_of_head(c)

\* The j-th configuration an expansion has appended to the next level.
Child(j) == next_level'[Len(next_level) + j]

\* The string t with the character w in cell h, or appended when t has no
\* cell h.
WithCell(t, h, w) ==
    IF h < Len(t) THEN [t EXCEPT ![h + 1] = w] ELSE Append(t, w)

\* C8 (tape round-trip), as the claim states it, for a rule with a move
\* among L, R, S and a write symbol of one character, applied with the head
\* on a cell of the tape: the tape of the child is the tape of its parent,
\* cell by cell, but for the cell under the parent's head, which holds the
\* write symbol of the rule.
C8_TapeRoundTrip ==
    [][Expanded =>
         \A j \in 1..Len(AppliedTo(current)) :
             LET rule == transitions[AppliedTo(current)[j]]
                 t == TapeOf(current)
                 ct == TapeOf(Child(j))
             IN  (WellFormed(rule) /\ head(current) < Len(t))
                     => /\ Len(ct) = Len(t)
                        /\ \A i \in 1..Len(t) :
                               IF i = head(current) + 1
                               THEN <<ct[i]>> = rule.tape_write
                               ELSE ct[i] = t[i]]_vars

\* C8 as amended: for a write symbol of one character, the tape of every
\* child is the tape of its parent with the write symbol in the cell under
\* the parent's head (appended as a new cell when the head is at the end
\* of the tape), and with at most one blank cell added, at its left or at
\* its right end; every other cell keeps its symbol and its order.
C8_TapeRoundTripAmended ==
    [][Expanded =>
         \A j \in 1..Len(AppliedTo(current)) :
             LET rule == transitions[AppliedTo(current)[j]]
                 w == WithCell(TapeOf(current), head(current), rule.tape_write[1])
             IN  Len(rule.tape_write) = 1
                     => TapeOf(Child(j)) \in {w, <<"_">> \o w, w \o <<"_">>}]_vars

\* C8's case: the rule (q0, a, q1, b, L) has been applied at the left end
\* of the tape "ab": a blank in front, "b" written over "a", "b" kept.
C8_Witness ==
    /\ Len(tree) >= 2
    /\ Level(0) = <<Config(<<>>, "q0", <<"a", "b">>)>>
    /\ \E i \in 1..Len(Level(1)) :
           Level(1)[i] = Config(<<>>, "q1", <<"_", "b", "b">>)

\* A rule applied to the configuration the for loop is at, whose head is on
\* a cell of the tape, has a head move that is none of L, R, S (in a table
\* whose write symbols are single characters).
MalformedApplies ==
    /\ pc = "for" /\ idx < Len(current_level)
    /\ ~Halting(state_of(current))
    /\ Under(current) # <<>>
    /\ \A k \in 1..Len(transitions) : OneCharacterWrite(transitions[k])
    /\ \E j \in 1..Len(AppliedTo(current)) :
           transitions[AppliedTo(current)[j]].head_move \notin {"L", "R", "S"}

\* C9 (malformed head move), as the claim states it: when a rule whose
\* head move is none of L, R, S matches the configuration being expanded
\* (the symbol it reads is under the head), the call ends in a hard failure
\* and no configuration comes out of the expansion.
C9_MalformedMoveFails ==
    [][MalformedApplies => (pc' = "done" /\ outcome' = "raised")]_vars

\* C10 (determinism): a call of simulate_ntm that follows a call with the
\* same machine, input and step bound ends as that call did: the same
\* verdict (or the same failure), the same depth, the same total and the
\* same trace, level by level.
C10_Determinism ==
    (Finished /\ earlier # <<>>) => Result = earlier[1]

\* C10's case: the second call has branched, counted and reached a verdict.
C10_Witness ==
    /\ Finished /\ calls = 2 /\ earlier # <<>>
    /\ outcome = "accepted" /\ depth = 2 /\ total_transitions >= 3

\* The symbol a configuration reads, as the specification has it: the cell
\* under the head, or the blank when the head is at or past the end of the
\* tape.
SymbolRead(c) ==
    IF right_of_head(c) = <<>> THEN Blank ELSE <<right_of_head(c)[1]>>

\* Rule k leaves the state of configuration c and reads the symbol c reads.
Reads(k, c) ==
    /\ transitions[k].current_state = state_of(c)
    /\ transitions[k].input_char = SymbolRead(c)

\* The rules that read the symbol of c in the state of c, in table order,
\* from the k-th on.
RECURSIVE ReadingFrom(_, _)
ReadingFrom(k, c) ==
    IF k > Len(transitions) THEN <<>>
    ELSE (IF Reads(k, c) THEN <<k>> ELSE <<>>) \o ReadingFrom(k + 1, c)

ReadBy(c) == ReadingFrom(1, c)

\* C11 (transition matching), as the claim states it, for a table whose
\* rules have a move among L, R, S and a write symbol of one character: the
\* rules applied to a configuration in neither the accept nor the reject
\* state are the rules that leave its state and read the symbol it reads
\* (the blank when the head is at the end of the tape), and no other rule:
\* one transition counted and one child, in the rule's next state, for each
\* of them.
C11_TransitionMatching ==
    [][(Expanded /\ WellFormedTable) =>
         /\ total_transitions' - total_transitions = Len(ReadBy(current))
         /\ Len(next_level') - Len(next_level) = Len(ReadBy(current))
         /\ \A j \in 1..Len(ReadBy(current)) :
                state_of(Child(j)) = transitions[ReadBy(current)[j]].next_state]_vars

\* The configuration a rule with a move among L, R, S and a write symbol of
\* one character leads to from configuration c, on a tape whose unwritten
\* cells read blank: the write symbol goes into the cell under the head,
\* the head moves, and a blank cell joins the tape at the edge the head has
\* moved past.
StepTo(c, rule) ==
    LET h == Len(left_of_head(c))
        t == IF right_of_head(c) = <<>> THEN TapeOf(c) \o Blank ELSE TapeOf(c)
        w == [t EXCEPT ![h + 1] = rule.tape_write[1]]
        n == CASE rule.head_move = "R" -> h + 1
               [] rule.head_move = "L" -> h - 1
               [] OTHER -> h
    IN  IF n < 0 THEN Config(<<>>, rule.next_state, Blank \o w)
        ELSE IF n >= Len(w) THEN Config(w, rule.next_state, Blank)
        ELSE Config(SubSeq(w, 1, n), rule.next_state, SubSeq(w, n + 1, Len(w)))

\* What a configuration of one level contributes to the next level: nothing
\* in the accept state, itself in the reject state (section 3 of the
\* specification keeps a reject configuration in every later level), and
\* otherwise one configuration per rule that reads its symbol, in table
\* order.
SuccessorsOf(c) ==
    IF state_of(c) = accept_state THEN <<>>
    ELSE IF state_of(c) = reject_state THEN <<c>>
    ELSE [j \in 1..Len(ReadBy(c)) |-> StepTo(c, transitions[ReadBy(c)[j]])]

\* The successors of the configurations of a level, from the i-th on, in
\* the order of the level.
RECURSIVE SuccessorsFrom(_, _)
SuccessorsFrom(level, i) ==
    IF i > Len(level) THEN <<>>
    ELSE SuccessorsOf(level[i]) \o SuccessorsFrom(level, i + 1)

\* C12 (breadth-first levels), as the claim states it, for a table whose
\* rules have a move among L, R, S and a write symbol of one character:
\* level 0 of the trace is the initial configuration alone, and every later
\* level is, in order, what the configurations of the level before it lead
\* to by one transition (a reject configuration standing for itself).
C12_BreadthFirstLevels ==
    (WellFormedTable /\ tree # <<>>) =>
        /\ Level(0) = <<Config(<<>>, start_state, input_string)>>
        /\ \A d \in 1..(Len(tree) - 1) :
               Level(d) = SuccessorsFrom(Level(d - 1), 1)

\* The for loop is at a configuration in the reject state.
AtReject ==
    /\ pc = "for" /\ idx < Len(current_level)
    /\ state_of(current) # accept_state
    /\ state_of(current) = reject_state

\* The number of configurations of a level in state q, from the i-th on.
RECURSIVE InState(_, _, _)
InState(level, q, i) ==
    IF i > Len(level) THEN 0
    ELSE (IF state_of(level[i]) = q THEN 1 ELSE 0) + InState(level, q, i + 1)

\* The number of configurations in state q in the levels below level d.
RECURSIVE InStateBelow(_, _)
InStateBelow(q, d) ==
    IF d = 0 THEN 0
    ELSE InStateBelow(q, d - 1) + InState(Level(d - 1), q, 1)

\* A reject configuration of a level of the trace is in every later level.
RejectKept ==
    \A d \in 0..(Len(tree) - 1) : \A i \in 1..Len(Level(d)) :
        state_of(Level(d)[i]) = reject_state
            => \A e \in (d + 1)..(Len(tree) - 1) :
                   \E j \in 1..Len(Level(e)) : Level(e)[j] = Level(d)[i]

\* C13 (reject re-emission): processing a configuration in the reject state
\* applies no rule to it (the total stays as it is, new_head too), adds one
\* to the reject counter and appends the configuration, unchanged and
\* alone, to the next level; a reject configuration of level d is in every
\* later level of the trace; and between two levels the reject counter is
\* the number of reject configurations in the levels processed so far, one
\* for each level each of them has been processed in.
C13_RejectReemission ==
    /\ [][AtReject =>
            /\ next_level' = Append(next_level, current)
            /\ reject_count' = reject_count + 1
            /\ total_transitions' = total_transitions
            /\ accept_count' = accept_count
            /\ new_head' = new_head
            /\ idx' = idx + 1 /\ pc' = "for"]_vars
    /\ [](RejectKept
          /\ (pc = "while" => reject_count = InStateBelow(reject_state, depth)))

\* C13's case: the reject configuration reached at level 1 is in levels 2
\* and 3 too, has been counted at levels 1 and 2, and the one transition of
\* the run is the one that led to it, although the table has a rule that
\* leaves the reject state and reads the symbol under its head.
C13_Witness ==
    /\ Finished /\ outcome = "stopped" /\ depth = 3
    /\ Level(1) = <<Config(<<>>, "qrej", <<"a">>)>>
    /\ Level(2) = Level(1) /\ Level(3) = Level(1)
    /\ reject_count = 2 /\ total_transitions = 1
    /\ \E k \in 1..Len(transitions) : Reads(k, Level(1)[1])

\* The for loop is at a configuration in the accept state.
AtAccept ==
    /\ pc = "for" /\ idx < Len(current_level)
    /\ state_of(current) = accept_state

\* C14 (accept ends the branch): processing a configuration in the accept
\* state adds one to the accept counter, appends nothing to the next level
\* and counts no transition, whatever rules leave the accept state; and
\* between two levels the accept counter is the number of accept
\* configurations in the levels processed so far.
C14_AcceptEndsBranch ==
    /\ [][AtAccept =>
            /\ accept_count' = accept_count + 1
            /\ next_level' = next_level
            /\ total_transitions' = total_transitions
            /\ reject_count' = reject_count
            /\ new_head' = new_head
            /\ idx' = idx + 1 /\ pc' = "for"]_vars
    /\ [](pc = "while" => accept_count = InStateBelow(accept_state, depth))

\* C14's case: the accept configuration of level 1 has been processed, the
\* next level is empty and the one transition counted is the one that led
\* to it, although the table has a rule that leaves the accept state and
\* reads the symbol under its head.
C14_Witness ==
    /\ Finished /\ outcome = "accepted" /\ depth = 1
    /\ Level(1) = <<Config(<<>>, "qacc", <<"a">>)>>
    /\ accept_count = 1 /\ total_transitions = 1 /\ next_level = <<>>
    /\ \E k \in 1..Len(transitions) : Reads(k, Level(1)[1])

\* The number of rules applied to the configurations of a level that are in
\* neither the accept nor the reject state, from the i-th on.
RECURSIVE AppliedIn(_, _)
AppliedIn(level, i) ==
    IF i > Len(level) THEN 0
    ELSE (IF Halting(state_of(level[i])) THEN 0 ELSE Len(AppliedTo(level[i])))
             + AppliedIn(level, i + 1)

\* The number of rules applied in the levels below level d.
RECURSIVE AppliedBelow(_)
AppliedBelow(d) ==
    IF d = 0 THEN 0 ELSE AppliedBelow(d - 1) + AppliedIn(Level(d - 1), 1)

\* C15 (no short-circuit on acceptance): a level is left, for the next
\* level or for a verdict, only when the for loop has gone through every
\* configuration of it; processing an accept configuration takes the loop
\* to the next configuration of the level and ends nothing; and between
\* two levels the total counts the rules applied to every configuration of
\* the levels processed so far, the siblings of the accept configurations
\* among them, each of which has its children (or its copy, for a reject
\* configuration) in the level after its own.
C15_NoShortCircuit ==
    /\ [][(pc = "for" /\ pc' # "for" /\ outcome' # "raised")
              => idx = Len(current_level)]_vars
    /\ [][(pc = "for" /\ idx < Len(current_level) /\ outcome' # "raised")
              => (idx' = idx + 1 /\ pc' = "for" /\ tree' = tree)]_vars
    /\ [][AtAccept => (pc' = "for" /\ outcome' = "none")]_vars
    /\ [](pc = "while" =>
             /\ total_transitions = AppliedBelow(depth)
             /\ \A d \in 1..depth :
                    Len(Level(d)) = AppliedIn(Level(d - 1), 1)
                                      + InState(Level(d - 1), reject_state, 1))

\* C15's case: level 1 holds an accept configuration and, after it, a
\* configuration in state q0; the run has gone on to level 2, which holds
\* the two children of that sibling, and the total counts their two
\* transitions with the two of level 0.
C15_Witness ==
    /\ pc = "while" /\ depth = 2
    /\ Len(Level(1)) = 2
    /\ state_of(Level(1)[1]) = accept_state
    /\ state_of(Level(1)[2]) = "q0"
    /\ accept_count = 1
    /\ Len(Level(2)) = 2
    /\ total_transitions = 4

\* C16 (tape growth), as the claim states it, for the rules with a write
\* symbol of one character and a move among L, R, S that read the symbol
\* read: the tape of the child is longer than the tape of its parent by
\* one blank cell, put in front of it with the head on it when the head
\* has moved past the left edge, appended to it under the head when the
\* head has moved past the right edge, and has the length of the tape of
\* its parent otherwise.
C16_TapeGrowth ==
    [][Expanded =>
         \A j \in 1..Len(AppliedTo(current)) :
             LET k == AppliedTo(current)[j]
                 rule == transitions[k]
                 t == TapeOf(current)
                 h == head(current)
                 ct == TapeOf(Child(j))
             IN  (WellFormed(rule) /\ Reads(k, current)) =>
                     IF rule.head_move = "L" /\ h = 0
                     THEN /\ Len(ct) = Len(t) + 1
                          /\ left_of_head(Child(j)) = <<>>
                          /\ <<ct[1]>> = Blank
                     ELSE IF rule.head_move = "R" /\ h + 1 >= Len(t)
                     THEN /\ Len(ct) = Len(t) + 1
                          /\ right_of_head(Child(j)) = Blank
                     ELSE Len(ct) = Len(t)]_vars

\* C16 as amended: for a write symbol of one character, the tape of the
\* child is never shorter than the tape of its parent; and for a move among
\* L, R, S it is the tape of its parent with the write symbol in the cell
\* under the head (a new cell at the end when the head is at the end of the
\* tape, as in the initial configuration on the empty input), with one
\* blank cell in front of it and the head on that cell when the head has
\* moved past the left edge, with one blank cell appended under the head
\* when the head has moved past the right edge, and with no other cell.
C16_TapeGrowthAmended ==
    [][Expanded =>
         \A j \in 1..Len(AppliedTo(current)) :
             LET rule == transitions[AppliedTo(current)[j]]
                 t == TapeOf(current)
                 h == head(current)
                 w == WithCell(t, h, rule.tape_write[1])
                 ct == TapeOf(Child(j))
             IN  Len(rule.tape_write) = 1 =>
                     /\ Len(ct) >= Len(t)
                     /\ rule.head_move \in {"L", "R", "S"} =>
                            IF rule.head_move = "L" /\ h = 0
                            THEN /\ ct = Blank \o w
                                 /\ left_of_head(Child(j)) = <<>>
                            ELSE IF rule.head_move = "R" /\ h + 1 = Len(w)
                            THEN /\ ct = w \o Blank
                                 /\ right_of_head(Child(j)) = Blank
                            ELSE ct = w]_vars

\* C16's case: on the input "a" the rule (q0, a, q0, a, R) has moved the
\* head past the right edge and (q0, a, q1, b, L) has moved it past the
\* left edge: a blank under the head at the right, and one in front.
C16_Witness ==
    /\ Len(tree) >= 2
    /\ Level(0) = <<Config(<<>>, "q0", <<"a">>)>>
    /\ \E i \in 1..Len(Level(1)) :
           Level(1)[i] = Config(<<"a">>, "q0", <<"_">>)
    /\ \E i \in 1..Len(Level(1)) :
           Level(1)[i] = Config(<<>>, "q1", <<"_", "b">>)

\* The number of levels the call has started to expand: one for each level
\* of the trace but the last, and one for the last when the for loop is in
\* it or has ended the call in it.
LevelsExpanded ==
    IF tree = <<>> THEN 0
    ELSE (Len(tree) - 1)
             + (IF pc = "for" \/ (Finished /\ outcome # "stopped") THEN 1 ELSE 0)

\* C17 (termination), as the claim states it, in its finite form and for a
\* non-empty input: a call that is over has ended in one of the three
\* outcomes accepted, rejected and stopped at the step bound.
C17_ThreeOutcomes ==
    (Finished /\ input_string # <<>>)
        => outcome \in {"accepted", "rejected", "stopped"}

\* What is left of the call: whether it is still to be entered, the levels
\* the step bound still allows, whether the loop test of the current depth
\* is still to be made, and the configurations of the current level still
\* to be processed.
Rank ==
    << IF pc = "entry" THEN 1 ELSE 0,
       IF pc = "done" THEN 0 ELSE max_steps - depth + 1,
       IF pc = "while" THEN 1 ELSE 0,
       IF pc = "for" THEN Len(current_level) - idx + 1 ELSE 0 >>

\* r comes before s in the lexicographic order of tuples of four naturals.
RankLess(r, s) ==
    \E i \in 1..4 :
        /\ \A j \in 1..(i - 1) : r[j] = s[j]
        /\ r[i] < s[i]

\* C17 as amended: every call comes to its end, having expanded at most
\* max_steps levels, in exactly one of four outcomes: accepted, rejected,
\* stopped at the step bound, or the UnboundLocalError of a rule whose head
\* move is none of L, R, S.  Every statement executed brings the call
\* nearer to its end, whatever the table branches or loops to.
C17_TerminationAmended ==
    /\ <>Finished
    /\ [](LevelsExpanded <= max_steps /\ depth <= max_steps)
    /\ [](Finished <=> outcome \in {"accepted", "rejected", "stopped", "raised"})
    /\ [](\A i \in 1..4 : Rank[i] >= 0)
    /\ [][RankLess(Rank', Rank)]_vars

\* C17's case: a machine that loops and branches, with no reject
\* configuration in its trace, has been stopped at a step bound of three
\* with more and more configurations in its levels.
C17_Witness ==
    /\ Finished /\ outcome = "stopped" /\ max_steps = 3 /\ depth = 3
    /\ reject_count = 0
    /\ Len(Level(2)) >= 2 /\ Len(Level(3)) > Len(Level(2))

\* A configuration in the reject state is in some level of the trace.
RejectInTrace ==
    \E d \in 0..(Len(tree) - 1) : \E i \in 1..Len(Level(d)) :
        state_of(Level(d)[i]) = reject_state

C18_WitnessStart ==
    /\ Finished /\ outcome = "stopped" /\ depth >= 2
    /\ start_state = reject_state
    /\ total_transitions = 0

\* The head of a configuration is on a cell of its tape: its right segment
\* is not empty.
HeadOnTape(c) == right_of_head(c) # <<>>

\* The initial configuration on the empty input, or the copy of it that a
\* later level holds when the start state is the reject state.
InitialOnEmpty(c) ==
    /\ input_string = <<>>
    /\ c = Config(<<>>, start_state, <<>>)

\* C19 (the head stays on the tape), as the claim states it, for a table
\* whose write symbols are single characters: every configuration that a
\* transition has produced, in the trace or in the next level, has its head
\* on a cell of its tape; a configuration whose head is at the end of its
\* tape is the initial configuration on the empty input.
C19_HeadOnTape ==
    (\A k \in 1..Len(transitions) : OneCharacterWrite(transitions[k])) =>
        /\ \A d \in 0..(Len(tree) - 1) : \A i \in 1..Len(Level(d)) :
               HeadOnTape(Level(d)[i]) \/ InitialOnEmpty(Level(d)[i])
        /\ \A i \in 1..Len(next_level) :
               HeadOnTape(next_level[i]) \/ InitialOnEmpty(next_level[i])

====
